---- MODULE Spec2Model ----
(***************************************************************************)
(* Model of the mosaic node crate (src/src/lib.rs): Config::new resolves   *)
(* two endpoint addresses from the process environment, run(config)        *)
(* connects to the origin chain and prints its accounts.                   *)
(*                                                                         *)
(* An environment value is an OsString: a sequence of bytes.  A String is  *)
(* a sequence of bytes that is valid UTF-8.  The program is single         *)
(* threaded: the environment is changed only by set_var / remove_var.      *)
(***************************************************************************)
EXTENDS Integers, Sequences, FiniteSets, TLC

(* ---------------------------- bounds ----------------------------------- *)
\* longest generated environment value, in bytes
MaxLen == 1
\* longest account list the chain client returns
MaxAccounts == 2

(* ------------------------- program constants --------------------------- *)
ENV_ORIGIN_ADDRESS == "MOSAIC_ORIGIN_ADDRESS"
ENV_AUXILIARY_ADDRESS == "MOSAIC_AUXILIARY_ADDRESS"
\* "http://127.0.0.1:8545"
DEFAULT_ORIGIN_ADDRESS ==
  <<104,116,116,112,58,47,47,49,50,55,46,48,46,48,46,49,58,56,53,52,53>>
\* "http://127.0.0.1:8546"
DEFAULT_AUXILIARY_ADDRESS ==
  <<104,116,116,112,58,47,47,49,50,55,46,48,46,48,46,49,58,56,53,52,54>>

\* the values the crate's test stores: "10.0.0.1" and "10.0.0.2"
TestOrigin == <<49,48,46,48,46,48,46,49>>
TestAuxiliary == <<49,48,46,48,46,48,46,50>>

\* bytes the generated values are built from: a space (which a trim would
\* remove) and 0xFF (which never occurs in UTF-8)
ByteAlphabet == {32, 255}

SeqsUpTo(S, n) == UNION {[1..k -> S] : k \in 0..n}

\* the values an environment variable is given
OsStrings == SeqsUpTo(ByteAlphabet, MaxLen) \cup {TestOrigin, TestAuxiliary}

VarNames == {ENV_ORIGIN_ADDRESS, ENV_AUXILIARY_ADDRESS}

\* the environment tables: a variable is absent or holds an OsString
Environments == UNION {[D -> OsStrings] : D \in SUBSET VarNames}

\* the accounts of the origin chain, as the chain client displays them
Accounts == {"0xAA", "0xBB"}
AccountLists == SeqsUpTo(Accounts, MaxAccounts)

(* ------------------------------ UTF-8 ---------------------------------- *)
IsCont(b) == b >= 128 /\ b <= 191

\* String::from_utf8 as used by env::var: Unicode scalar values in their
\* shortest encoding
RECURSIVE IsUtf8From(_, _)
IsUtf8From(s, i) ==
  IF i > Len(s) THEN TRUE
  ELSE LET b == s[i]
           n == Len(s) - i
       IN IF b < 128 THEN IsUtf8From(s, i + 1)
          ELSE IF b >= 194 /\ b <= 223
            THEN n >= 1 /\ IsCont(s[i+1]) /\ IsUtf8From(s, i + 2)
          ELSE IF b >= 224 /\ b <= 239
            THEN /\ n >= 2
                 /\ IsCont(s[i+1]) /\ IsCont(s[i+2])
                 /\ (b = 224 => s[i+1] >= 160)
                 /\ (b = 237 => s[i+1] <= 159)
                 /\ IsUtf8From(s, i + 3)
          ELSE IF b >= 240 /\ b <= 244
            THEN /\ n >= 3
                 /\ IsCont(s[i+1]) /\ IsCont(s[i+2]) /\ IsCont(s[i+3])
                 /\ (b = 240 => s[i+1] >= 144)
                 /\ (b = 244 => s[i+1] <= 143)
                 /\ IsUtf8From(s, i + 4)
          ELSE FALSE

IsUtf8(s) == IsUtf8From(s, 1)

(* ------------------------------ state ---------------------------------- *)
VARIABLES
  env,        \* the process environment: a function on the variables set
  pc,         \* where the process is
  ret,        \* what the latest Config::new returned
  snapshot,   \* the environment the latest Config::new read
  emitted,    \* the info! lines of the latest Config::new
  connected,  \* the address handed to connect_to_ethereum
  accounts,   \* what get_accounts returned
  idx,        \* the for loop's position in accounts
  stdout,     \* the lines printed so far
  outcome     \* how run ended

vars == <<env, pc, ret, snapshot, emitted, connected, accounts, idx, stdout,
          outcome>>

(* --------------------------- std::env ---------------------------------- *)
\* env::var(name): Ok(String), Err(NotPresent) or Err(NotUnicode(value))
EnvVarLossy(e, name) ==
  IF name \notin DOMAIN e
    THEN [tag |-> "Err", err |-> "NotPresent", val |-> <<>>]
    ELSE [tag |-> "Ok", err |-> "",
          val |-> [i \in 1..Len(e[name]) |->
                     IF e[name][i] >= 128 THEN 63 ELSE e[name][i]]]

EnvVar(e, name) ==
  IF name \notin DOMAIN e
    THEN [tag |-> "Err", err |-> "NotPresent", val |-> <<>>]
    ELSE IF IsUtf8(e[name])
      THEN [tag |-> "Ok", err |-> "", val |-> e[name]]
      ELSE [tag |-> "Err", err |-> "NotUnicode", val |-> e[name]]

\* env::set_var(name, value)
SetVarIn(e, name, value) ==
  [n \in (DOMAIN e) \cup {name} |-> IF n = name THEN value ELSE e[n]]

\* env::remove_var(name)
RemoveVarIn(e, name) == [n \in (DOMAIN e) \ {name} |-> e[n]]

(* --------------------------- Config::new ------------------------------- *)
\* a String with its leading and trailing spaces removed
RECURSIVE TrimStart(_)
TrimStart(s) == IF s # <<>> /\ Head(s) = 32 THEN TrimStart(Tail(s)) ELSE s
RECURSIVE TrimEnd(_)
TrimEnd(s) ==
  IF s # <<>> /\ s[Len(s)] = 32 THEN TrimEnd(SubSeq(s, 1, Len(s) - 1)) ELSE s
Trim(s) == TrimEnd(TrimStart(s))

OriginAddressSwappedDefault(e) ==
  LET r == EnvVar(e, ENV_ORIGIN_ADDRESS)
  IN IF r.tag = "Ok" THEN r.val ELSE DEFAULT_AUXILIARY_ADDRESS

OriginAddressTrimmed(e) ==
  LET r == EnvVar(e, ENV_ORIGIN_ADDRESS)
  IN IF r.tag = "Ok" THEN Trim(r.val) ELSE DEFAULT_ORIGIN_ADDRESS

OriginAddressUnwrapOrDefault(e) ==
  LET r == EnvVar(e, ENV_ORIGIN_ADDRESS)
  IN IF r.tag = "Ok" THEN r.val ELSE <<>>

\* the match on the origin lookup
OriginAddress(e) ==
  LET r == EnvVar(e, ENV_ORIGIN_ADDRESS)
  IN IF r.tag = "Ok" THEN r.val ELSE DEFAULT_ORIGIN_ADDRESS

AuxiliaryAddressSwappedDefault(e) ==
  LET r == EnvVar(e, ENV_AUXILIARY_ADDRESS)
  IN IF r.tag = "Ok" THEN r.val ELSE DEFAULT_ORIGIN_ADDRESS

AuxiliaryAddressReadsOrigin(e) ==
  LET r == EnvVar(e, ENV_ORIGIN_ADDRESS)
  IN IF r.tag = "Ok" THEN r.val ELSE DEFAULT_AUXILIARY_ADDRESS

\* the match on the auxiliary lookup
AuxiliaryAddress(e) ==
  LET r == EnvVar(e, ENV_AUXILIARY_ADDRESS)
  IN IF r.tag = "Ok" THEN r.val ELSE DEFAULT_AUXILIARY_ADDRESS

NoConfig == [origin_address |-> <<>>, auxiliary_address |-> <<>>]

\* no call of Config::new has returned yet
NotCalled == [tag |-> "None", config |-> NoConfig]

ConfigNewStrict(e) ==
  IF \E n \in VarNames : EnvVar(e, n).err = "NotUnicode"
    THEN [tag |-> "Err", config |-> NoConfig]
    ELSE [tag |-> "Ok",
          config |-> [origin_address |-> OriginAddress(e),
                      auxiliary_address |-> AuxiliaryAddress(e)]]

\* the Result<Config, &'static str> that Config::new returns
ConfigNewValue(e) ==
  [tag |-> "Ok",
   config |-> [origin_address |-> OriginAddress(e),
               auxiliary_address |-> AuxiliaryAddress(e)]]

OriginFallback == "No origin chain address given, falling back to default."
AuxiliaryFallback ==
  "No auxiliary chain address given, falling back to default."

Info(msg, arg) == [msg |-> msg, arg |-> arg]

\* the info! lines of one call, in the order they are emitted
ConfigNewLog(e) ==
     (IF EnvVar(e, ENV_ORIGIN_ADDRESS).tag = "Ok"
        THEN <<>> ELSE <<Info(OriginFallback, <<>>)>>)
  \o (IF EnvVar(e, ENV_AUXILIARY_ADDRESS).tag = "Ok"
        THEN <<>> ELSE <<Info(AuxiliaryFallback, <<>>)>>)
  \o <<Info("Using origin chain address: ", OriginAddress(e)),
       Info("Using auxiliary chain address: ", AuxiliaryAddress(e))>>

(* ------------------------------- run ----------------------------------- *)
\* the outcomes of blockchain::connect_to_ethereum
ConnectOutcomes == {"connected", "failed"}

\* the outcomes of get_accounts: the account list, or a failure
GetAccountsOutcomes == {[ok |-> TRUE, list |-> l] : l \in AccountLists}
                         \cup {[ok |-> FALSE, list |-> <<>>]}

\* the address run hands to connect_to_ethereum
ConnectTarget(config) == config.origin_address

HeaderLine == "Accounts:"

AccountLineReversed(accts, i) == accts[Len(accts) + 1 - i]

\* the line the for loop prints in its i-th round
AccountLine(accts, i) == accts[i]

(* ------------------------------ Init ----------------------------------- *)
Init ==
  /\ env \in Environments
  /\ pc = "idle"
  /\ ret = NotCalled
  /\ snapshot = env
  /\ emitted = <<>>
  /\ connected = <<>>
  /\ accounts = <<>>
  /\ idx = 0
  /\ stdout = <<>>
  /\ outcome = "None"

runVars == <<connected, accounts, idx, stdout, outcome>>
newVars == <<ret, snapshot, emitted>>

(* ----------------------------- actions --------------------------------- *)
SetVar(name, value) ==
  /\ pc = "idle"
  /\ env' = SetVarIn(env, name, value)
  /\ UNCHANGED <<pc, newVars, runVars>>

RemoveVar(name) ==
  /\ pc = "idle"
  /\ env' = RemoveVarIn(env, name)
  /\ UNCHANGED <<pc, newVars, runVars>>

ConfigNewConsuming ==
  /\ pc = "idle"
  /\ ret' = ConfigNewValue(env)
  /\ snapshot' = env
  /\ emitted' = ConfigNewLog(env)
  /\ env' = RemoveVarIn(RemoveVarIn(env, ENV_ORIGIN_ADDRESS),
                        ENV_AUXILIARY_ADDRESS)
  /\ UNCHANGED <<pc, runVars>>

ConfigNew ==
  /\ pc = "idle"
  /\ ret' = ConfigNewValue(env)
  /\ snapshot' = env
  /\ emitted' = ConfigNewLog(env)
  /\ UNCHANGED <<env, pc, runVars>>

\* run(config), up to the return of connect_to_ethereum
RunConnect ==
  /\ pc = "idle"
  /\ ret.tag = "Ok"
  /\ connected' = ConnectTarget(ret.config)
  /\ \E o \in ConnectOutcomes :
       IF o = "connected"
         THEN pc' = "query" /\ outcome' = outcome
         ELSE pc' = "panicked" /\ outcome' = "Panicked"
  /\ UNCHANGED <<env, newVars, accounts, idx, stdout>>

RunGetAccounts ==
  /\ pc = "query"
  /\ \E o \in GetAccountsOutcomes :
       IF o.ok
         THEN pc' = "header" /\ accounts' = o.list /\ outcome' = outcome
         ELSE pc' = "panicked" /\ accounts' = accounts
              /\ outcome' = "Panicked"
  /\ UNCHANGED <<env, newVars, connected, idx, stdout>>

RunHeader ==
  /\ pc = "header"
  /\ stdout' = Append(stdout, HeaderLine)
  /\ idx' = 1
  /\ pc' = "loop"
  /\ UNCHANGED <<env, newVars, connected, accounts, outcome>>

RunAccountLine ==
  /\ pc = "loop"
  /\ idx <= Len(accounts)
  /\ stdout' = Append(stdout, AccountLine(accounts, idx))
  /\ idx' = idx + 1
  /\ UNCHANGED <<env, pc, newVars, connected, accounts, outcome>>

RunReturn ==
  /\ pc = "loop"
  /\ idx > Len(accounts)
  /\ outcome' = "Ok"
  /\ pc' = "done"
  /\ UNCHANGED <<env, newVars, connected, accounts, idx, stdout>>

Next ==
  \/ \E n \in VarNames, v \in OsStrings : SetVar(n, v)
  \/ \E n \in VarNames : RemoveVar(n)
  \/ ConfigNew
  \/ RunConnect
  \/ RunGetAccounts
  \/ RunHeader
  \/ RunAccountLine
  \/ RunReturn

Spec == Init /\ [][Next]_vars

TypeOK ==
  /\ env \in Environments
  /\ snapshot \in Environments
  /\ pc \in {"idle", "query", "header", "loop", "done", "panicked"}
  /\ ret.tag \in {"None", "Ok", "Err"}
  /\ outcome \in {"None", "Ok", "Err", "Panicked"}
  /\ accounts \in AccountLists

(* ------------------------- vocabulary of the claims -------------------- *)
\* some call of Config::new has returned
Called == ret.tag # "None"

IsAbsent(e, n) == n \notin DOMAIN e
IsValidText(e, n) == n \in DOMAIN e /\ IsUtf8(e[n])
IsUnreadable(e, n) == n \in DOMAIN e /\ ~IsUtf8(e[n])

\* two environments agree on a variable
SameVar(e1, e2, n) ==
  /\ (n \in DOMAIN e1) = (n \in DOMAIN e2)
  /\ (n \in DOMAIN e1 => e1[n] = e2[n])

\* the step is a call of Config::new (a call that changes nothing the model
\* records is a stuttering step)
IsConfigNewStep == pc = "idle" /\ pc' = "idle" /\ env' = env

(* --------------------------------- C1 ---------------------------------- *)
\* C1: a Config::new that read an environment with neither variable set
\* returned Ok with origin_address "http://127.0.0.1:8545" and
\* auxiliary_address "http://127.0.0.1:8546".
C1_DefaultsWhenNeitherSet ==
  (Called /\ IsAbsent(snapshot, ENV_ORIGIN_ADDRESS)
          /\ IsAbsent(snapshot, ENV_AUXILIARY_ADDRESS))
    => /\ ret.tag = "Ok"
       /\ ret.config.origin_address =
            <<104,116,116,112,58,47,47,49,50,55,46,48,46,48,46,49,58,56,53,52,53>>
       /\ ret.config.auxiliary_address =
            <<104,116,116,112,58,47,47,49,50,55,46,48,46,48,46,49,58,56,53,52,54>>

C1_Witness ==
  /\ ret.tag = "Ok"
  /\ snapshot = RemoveVarIn(RemoveVarIn(snapshot, ENV_ORIGIN_ADDRESS),
                            ENV_AUXILIARY_ADDRESS)
  /\ ret.config.origin_address = DEFAULT_ORIGIN_ADDRESS
  /\ ret.config.auxiliary_address = DEFAULT_AUXILIARY_ADDRESS

(* --------------------------------- C2 ---------------------------------- *)
\* C2: a Config::new that read an environment with both variables set to
\* valid text returned exactly those two values, byte for byte, whatever
\* set_var calls led to that environment.
C2_BothVerbatim ==
  (Called /\ IsValidText(snapshot, ENV_ORIGIN_ADDRESS)
          /\ IsValidText(snapshot, ENV_AUXILIARY_ADDRESS))
    => /\ ret.tag = "Ok"
       /\ ret.config.origin_address = snapshot[ENV_ORIGIN_ADDRESS]
       /\ ret.config.auxiliary_address = snapshot[ENV_AUXILIARY_ADDRESS]

\* both set, the origin to a single space (which a trim would empty) and the
\* auxiliary to the test's "10.0.0.2"
C2_Witness ==
  /\ ret.tag = "Ok"
  /\ ENV_ORIGIN_ADDRESS \in DOMAIN snapshot
  /\ ENV_AUXILIARY_ADDRESS \in DOMAIN snapshot
  /\ snapshot[ENV_ORIGIN_ADDRESS] = <<32>>
  /\ snapshot[ENV_AUXILIARY_ADDRESS] = TestAuxiliary
  /\ ret.config.origin_address = <<32>>
  /\ ret.config.auxiliary_address = TestAuxiliary

(* --------------------------------- C3 ---------------------------------- *)
\* C3 as stated: a Config::new that read an environment with only the origin
\* variable set, to any value V, returned origin_address = V and the
\* auxiliary default.
C3_Original ==
  (Called /\ ENV_ORIGIN_ADDRESS \in DOMAIN snapshot
          /\ IsAbsent(snapshot, ENV_AUXILIARY_ADDRESS))
    => /\ ret.config.origin_address = snapshot[ENV_ORIGIN_ADDRESS]
       /\ ret.config.auxiliary_address = DEFAULT_AUXILIARY_ADDRESS

\* C3 amended: a Config::new that read an environment with only the origin
\* variable set, to a valid-text value V, returned origin_address = V and the
\* auxiliary default "http://127.0.0.1:8546".
C3_OnlyOriginSet ==
  (Called /\ IsValidText(snapshot, ENV_ORIGIN_ADDRESS)
          /\ IsAbsent(snapshot, ENV_AUXILIARY_ADDRESS))
    => /\ ret.tag = "Ok"
       /\ ret.config.origin_address = snapshot[ENV_ORIGIN_ADDRESS]
       /\ ret.config.auxiliary_address =
            <<104,116,116,112,58,47,47,49,50,55,46,48,46,48,46,49,58,56,53,52,54>>

\* the test's second step: only the origin set, to "10.0.0.1"
C3_Witness ==
  /\ ret.tag = "Ok"
  /\ DOMAIN snapshot = {ENV_ORIGIN_ADDRESS}
  /\ snapshot[ENV_ORIGIN_ADDRESS] = TestOrigin
  /\ ret.config.origin_address = TestOrigin
  /\ ret.config.auxiliary_address = DEFAULT_AUXILIARY_ADDRESS

(* --------------------------------- C4 ---------------------------------- *)
\* C4 as stated: neither field of a Config that Config::new returned is the
\* empty string.
C4_Original ==
  Called => /\ ret.config.origin_address # <<>>
            /\ ret.config.auxiliary_address # <<>>

FieldOf(config, n) ==
  IF n = ENV_ORIGIN_ADDRESS THEN config.origin_address
                            ELSE config.auxiliary_address

\* C4 amended: both fields of a Config that Config::new returned are defined
\* text, and a field is the empty string only when its variable was set to
\* the empty string.
C4_PopulatedUnlessSetEmpty ==
  Called =>
    /\ ret.tag = "Ok"
    /\ \A n \in VarNames :
         /\ IsUtf8(FieldOf(ret.config, n))
         /\ FieldOf(ret.config, n) = <<>>
              => (n \in DOMAIN snapshot /\ snapshot[n] = <<>>)

\* the origin variable set to the empty string, the auxiliary one absent
C4_Witness ==
  /\ ret.tag = "Ok"
  /\ DOMAIN snapshot = {ENV_ORIGIN_ADDRESS}
  /\ snapshot[ENV_ORIGIN_ADDRESS] = <<>>
  /\ ret.config.origin_address = <<>>
  /\ ret.config.auxiliary_address # <<>>

(* --------------------------------- C5 ---------------------------------- *)
\* C5: whatever the environment (each variable absent, valid text or
\* unreadable), Config::new returns Ok(Config), never Err.
C5_NeverErr == Called => ret.tag = "Ok"

\* a call that read one unreadable and one absent variable
C5_Witness ==
  /\ ret.tag = "Ok"
  /\ IsUnreadable(snapshot, ENV_ORIGIN_ADDRESS)
  /\ IsAbsent(snapshot, ENV_AUXILIARY_ADDRESS)

(* --------------------------------- C6 ---------------------------------- *)
\* C6: when connect_to_ethereum or get_accounts fails, run returns Err
\* carrying the client's error, and nothing was written to standard output.
C6_FailureIsReturned ==
  pc = "panicked" => (outcome = "Err" /\ stdout = <<>>)

(* --------------------------------- C7 ---------------------------------- *)
\* C7: on the successful path run connects to config.origin_address, writes
\* "Accounts:" first, then one line per account in the order get_accounts
\* returned them and nothing else, and returns Ok exactly when all are written.
C7_HeaderThenAccountsInOrder ==
  /\ pc \in {"query", "header", "loop", "done"}
       => connected = ret.config.origin_address
  /\ pc \in {"idle", "query", "header"} => stdout = <<>>
  /\ pc \in {"loop", "done"}
       => /\ idx \in 1..(Len(accounts) + 1)
          /\ stdout = <<"Accounts:">> \o SubSeq(accounts, 1, idx - 1)
  /\ (outcome = "Ok") = (pc = "done")
  /\ pc = "done" => stdout = <<"Accounts:">> \o accounts

\* scenario 4: the client returned ["0xAA", "0xBB"] and run has returned
C7_Witness ==
  /\ pc = "done"
  /\ outcome = "Ok"
  /\ accounts = <<"0xAA", "0xBB">>
  /\ stdout = <<"Accounts:", "0xAA", "0xBB">>
  /\ connected = TestOrigin

(* --------------------------------- C8 ---------------------------------- *)
\* C8: of two calls of Config::new, if the two environments agree on the
\* origin variable the two origin_address are equal, whatever the auxiliary
\* variable is in each; and the same with the two variables exchanged.
C8_Independent ==
  [][(IsConfigNewStep /\ Called)
       => /\ SameVar(snapshot, env, ENV_ORIGIN_ADDRESS)
               => ret'.config.origin_address = ret.config.origin_address
          /\ SameVar(snapshot, env, ENV_AUXILIARY_ADDRESS)
               => ret'.config.auxiliary_address = ret.config.auxiliary_address
    ]_vars

\* after a call with the origin at "10.0.0.1", the auxiliary variable alone
\* was changed and the next call is due
C8_Witness ==
  /\ pc = "idle"
  /\ ret.tag = "Ok"
  /\ ret.config.origin_address = TestOrigin
  /\ SameVar(snapshot, env, ENV_ORIGIN_ADDRESS)
  /\ IsAbsent(snapshot, ENV_AUXILIARY_ADDRESS)
  /\ IsValidText(env, ENV_AUXILIARY_ADDRESS)

(* --------------------------------- C9 ---------------------------------- *)
\* C9: a step that changes what Config::new returned, read or logged leaves
\* the environment as it was, and a call made in the environment the previous
\* call read returns an equal Config.
C9_Idempotent ==
  [][/\ newVars' # newVars => env' = env
     /\ (IsConfigNewStep /\ Called /\ snapshot = env) => ret' = ret
    ]_vars

\* a call has returned "10.0.0.1" and "10.0.0.2", the environment is still
\* the one it read, and the next call is due
C9_Witness ==
  /\ pc = "idle"
  /\ ret.tag = "Ok"
  /\ snapshot = env
  /\ DOMAIN env = VarNames
  /\ ret.config.origin_address = TestOrigin
  /\ ret.config.auxiliary_address = TestAuxiliary

(* --------------------------------- C10 --------------------------------- *)
DefaultOf(n) ==
  IF n = ENV_ORIGIN_ADDRESS THEN DEFAULT_ORIGIN_ADDRESS
                            ELSE DEFAULT_AUXILIARY_ADDRESS

FallbackLineOf(n) ==
  IF n = ENV_ORIGIN_ADDRESS THEN Info(OriginFallback, <<>>)
                            ELSE Info(AuxiliaryFallback, <<>>)

\* C10: for each variable on its own, a Config::new that read the variable
\* present but not valid text succeeded, set the field to that variable's
\* default and logged the fallback, as it does for an absent variable.
C10_UnreadableIsAbsent ==
  \A n \in VarNames :
    (Called /\ (IsUnreadable(snapshot, n) \/ IsAbsent(snapshot, n)))
      => /\ ret.tag = "Ok"
         /\ FieldOf(ret.config, n) = DefaultOf(n)
         /\ \E i \in DOMAIN emitted : emitted[i] = FallbackLineOf(n)

\* the auxiliary variable unreadable beside a readable origin
C10_Witness ==
  /\ ret.tag = "Ok"
  /\ IsUnreadable(snapshot, ENV_AUXILIARY_ADDRESS)
  /\ IsValidText(snapshot, ENV_ORIGIN_ADDRESS)
  /\ ret.config.auxiliary_address = DEFAULT_AUXILIARY_ADDRESS
  /\ ret.config.origin_address = snapshot[ENV_ORIGIN_ADDRESS]

====
